---- MODULE Spec2Model ----
(***************************************************************************)
(* F1 race strategy analyzer: the numeric engine of                        *)
(* src/src/strategy_recommender.py, src/src/strategy_analysis.py and       *)
(* src/src/undercut_simulator.py.                                          *)
(*                                                                         *)
(* The engine is a set of pure functions over pandas tables.  A table is   *)
(* a record [cols, rows]: the set of column names and the sequence of rows *)
(* (records) in frame order.  Each function is an operator computed the    *)
(* way the code computes it; each specification draws the inputs of a call *)
(* in Init and applies the functions in its actions.                       *)
(*                                                                         *)
(* Numbers.  Lap times of a degradation table are whole seconds.  Times    *)
(* inside simulate_strategy are fixed-point "ticks" of 1/TimeScale second, *)
(* TimeScale chosen so that np.interp, np.linspace and the pit-loss        *)
(* factors 1.1, 1.05, 0.95 are exact: the model computes the real-number   *)
(* value of every float expression (rounding of IEEE doubles is not        *)
(* modelled).  The duel and the payoff simulation have their own ticks,    *)
(* DuelScale and PayoffScale.                                              *)
(***************************************************************************)
EXTENDS Integers, Sequences, FiniteSets, TLC

VARIABLES
    laps,            \* the lap table handed to compute_stint_data or to the duel
    stints,          \* app.py: stints = compute_stint_data(laps); the gap's input
    degradation,     \* app.py: degradation = average_degradation(stints)
    degradation_df,  \* the degradation table handed to the strategy functions
    total_laps,      \* the race length handed to the strategy functions
    call,            \* the last call made, with its other arguments
    locals,          \* the locals of the last call when it ended
    ret              \* what the last call returned

vars == <<laps, stints, degradation, degradation_df, total_laps, call, locals, ret>>

----------------------------------------------------------------------------
(* Bounds of the model                                                     *)

MaxLaps == 4        \* total_laps ranges over 0..MaxLaps
MaxCurveLen == 2    \* points per compound in a degradation table
MaxLapIndex == 3    \* points per compound in the tables of SpecTyreLife and SpecPayoff
MaxRows == 3        \* rows of a lap table
MaxLife == 2        \* tyre-life values handed directly to simulate_strategy

----------------------------------------------------------------------------
(* Values                                                                  *)

\* An optional value is a sequence of at most one element: None is Python's
\* None, Some(x) a value that is present.
None == <<>>
Some(x) == <<x>>
NoCall == [fn |-> "none"]
NoValue == [value |-> "none"]

\* pd.DataFrame(): no columns, no rows
EmptyDataFrame == [cols |-> {}, rows |-> <<>>]

DegradationCols == {"Compound", "LapIndex", "LapTime_s"}

----------------------------------------------------------------------------
(* Arithmetic helpers                                                      *)

Min(a, b) == IF a <= b THEN a ELSE b

Max(a, b) == IF a >= b THEN a ELSE b

RECURSIVE Gcd(_, _)
Gcd(a, b) == IF b = 0 THEN a ELSE Gcd(b, a % b)

RECURSIVE LcmUpTo(_)
LcmUpTo(n) == IF n <= 1 THEN 1 ELSE LET l == LcmUpTo(n - 1) IN (l * n) \div Gcd(l, n)

\* ticks per second: 200 makes x1.1, x1.05 and x0.95 exact, the l.c.m. makes
\* every interpolation step i/(stint_len - 1), stint_len <= total_laps, exact
TimeScale == 200 * LcmUpTo(MaxLaps)

RECURSIVE SumSeq(_)
SumSeq(s) == IF s = <<>> THEN 0 ELSE Head(s) + SumSeq(Tail(s))

RECURSIVE SelectRows(_, _)
SelectRows(rows, compound) ==
    IF rows = <<>> THEN <<>>
    ELSE IF Head(rows).Compound = compound
         THEN <<Head(rows)>> \o SelectRows(Tail(rows), compound)
         ELSE SelectRows(Tail(rows), compound)

\* Series.unique(): the values in order of first appearance
RECURSIVE Unique(_)
Unique(s) ==
    IF s = <<>> THEN <<>>
    ELSE LET u == Unique(SubSeq(s, 1, Len(s) - 1))
             x == s[Len(s)]
         IN IF \E i \in 1..Len(u) : u[i] = x THEN u ELSE Append(u, x)

CompoundColumn(df) == [i \in 1..Len(df.rows) |-> df.rows[i].Compound]

----------------------------------------------------------------------------
(* strategy_recommender.py                                                 *)

\* the comparison without the 5% margin
ExceedsThresholdNoMargin(x, base) == x > base

\* a lap time x exceeds threshold = base * 1.05 (lines 12-13), in integers
ExceedsThreshold(x, base) == 20 * x > 21 * base

\* one iteration of the loop of estimate_tyre_life: the life of the group grp
TyreLifeOfGroup(grp) ==
    LET base == grp[1].LapTime_s
        exceed == SelectSeq(grp, LAMBDA r : ExceedsThreshold(r.LapTime_s, base))
        RECURSIVE MaxIndex(_)
        MaxIndex(g) == IF Len(g) = 1 THEN g[1].LapIndex
                       ELSE Max(g[1].LapIndex, MaxIndex(Tail(g)))
    IN IF exceed # <<>> THEN exceed[1].LapIndex ELSE MaxIndex(grp)

\* {compound: life}, a function on the compounds present in the table
estimate_tyre_life(df) ==
    [c \in {df.rows[i].Compound : i \in 1..Len(df.rows)} |->
        TyreLifeOfGroup(SelectRows(df.rows, c))]

\* np.linspace(90, 95, n), in ticks
FallbackCurve(n) ==
    IF n = 1 THEN <<90 * TimeScale>>
    ELSE [i \in 1..n |-> 90 * TimeScale + (5 * TimeScale * (i - 1)) \div (n - 1)]

\* np.interp(np.linspace(0, len(curve)-1, m), np.arange(len(curve)), curve),
\* for 1 <= len(curve) < m, curve in ticks
Interp(curve, m) ==
    LET n == Len(curve)
    IN [i \in 1..m |->
          LET num == (i - 1) * (n - 1)
              k == num \div (m - 1)
              frac == num % (m - 1)
          IN IF k + 1 >= n THEN curve[n]
             ELSE curve[k + 1] + (frac * (curve[k + 2] - curve[k + 1])) \div (m - 1)]

\* the lap times of one stint (lines 44-56)
StintLapTimes(df, compound, stint_len) ==
    LET grp == SelectRows(df.rows, compound)
        avg_curve == IF grp = <<>> THEN FallbackCurve(stint_len)
                     ELSE [i \in 1..Len(grp) |-> grp[i].LapTime_s * TimeScale]
    IN IF Len(avg_curve) < stint_len THEN Interp(avg_curve, stint_len)
       ELSE SubSeq(avg_curve, 1, stint_len)

\* tyre_life.get(compound, 10)
DefaultLife == 10

LifeOf(tyre_life, compound) ==
    IF compound \in DOMAIN tyre_life THEN tyre_life[compound] ELSE DefaultLife

\* the pit loss taken off the total instead of added
SubtractPitLoss(total_time, pit_loss) == total_time - pit_loss

\* line 69: total_time += pit_loss
AddPitLoss(total_time, pit_loss) == total_time + pit_loss

\* the for loop of simulate_strategy from position i on
RECURSIVE SimulateLoop(_, _, _, _, _, _, _, _)
SimulateLoop(i, seq, df, pit_loss, tyre_life, laps_remaining, total_time, stint_results) ==
    IF i > Len(seq) THEN [total_race_time_s |-> total_time, stints |-> stint_results]
    ELSE LET compound == seq[i]
             stint_len == Min(LifeOf(tyre_life, compound), laps_remaining)
             stint_time == SumSeq(StintLapTimes(df, compound, stint_len))
             stint == [Compound |-> compound, Laps |-> stint_len, Time_s |-> stint_time]
             remaining == laps_remaining - stint_len
         IN IF remaining <= 0
            THEN [total_race_time_s |-> total_time + stint_time,
                  stints |-> Append(stint_results, stint)]
            ELSE SimulateLoop(i + 1, seq, df, pit_loss, tyre_life, remaining,
                              AddPitLoss(total_time + stint_time, pit_loss),
                              Append(stint_results, stint))

\* pit_loss in ticks; tyre_life None or Some(function compound -> laps)
simulate_strategy(laps_total, compound_sequence, df, pit_loss, tyre_life) ==
    LET life == IF tyre_life = None THEN estimate_tyre_life(df) ELSE tyre_life[1]
        r == SimulateLoop(1, compound_sequence, df, pit_loss, life, laps_total, 0, <<>>)
    IN [total_race_time_s |-> r.total_race_time_s,
        stints |-> r.stints,
        sequence |-> compound_sequence]

\* itertools.product(compounds, repeat=stint_count), in itertools' order
RECURSIVE Product(_, _)
Product(compounds, stint_count) ==
    IF stint_count = 0 THEN << <<>> >>
    ELSE LET rest == Product(compounds, stint_count - 1)
             RECURSIVE Outer(_)
             Outer(i) == IF i > Len(compounds) THEN <<>>
                         ELSE [j \in 1..Len(rest) |-> <<compounds[i]>> \o rest[j]] \o Outer(i + 1)
         IN Outer(1)

\* len(set(seq))
DistinctCount(seq) == Cardinality({seq[i] : i \in 1..Len(seq)})

\* the generator without the dry-weather rule
generate_unfiltered_sequences(compounds, stint_count, weather) ==
    Product(compounds, stint_count)

_generate_compound_sequences(compounds, stint_count, weather) ==
    IF weather = "dry"
    THEN SelectSeq(Product(compounds, stint_count), LAMBDA seq : DistinctCount(seq) >= 2)
    ELSE Product(compounds, stint_count)

\* lines 112, 116-118: the tyre lives scaled by the weather factor, int(life * 0.7)
AdjustedTyreLife(df, weather) ==
    LET tyre_life == estimate_tyre_life(df)
    IN [k \in DOMAIN tyre_life |->
          IF weather = "dry" THEN tyre_life[k] ELSE (tyre_life[k] * 7) \div 10]

\* lines 120-126 alone: the stint counts of the circuit type, whatever the
\* qualifying position
StintCountOptionsByCircuit(circuit_type, qualifying_position) ==
    IF circuit_type = "high_deg" THEN <<2, 3>> ELSE <<1, 2>>

\* `if qualifying_position:` is false for None and for 0
Truthy(qualifying_position) == qualifying_position # None /\ qualifying_position[1] # 0

\* lines 120-139: the stint counts searched
StintCountOptions(circuit_type, qualifying_position) ==
    LET by_circuit == IF circuit_type = "high_deg" THEN <<2, 3>>
                      ELSE IF circuit_type = "low_deg" THEN <<1, 2>>
                      ELSE <<1, 2>>
    IN IF Truthy(qualifying_position)
       THEN LET position == qualifying_position[1]
            IN IF position <= 3 THEN <<1, 2>>
               ELSE IF 4 <= position /\ position <= 10 THEN <<2>>
               ELSE <<2, 3>>
       ELSE by_circuit

\* lines 113, 133, 140: the pit loss handed to simulate_strategy, in ticks
AdjustedPitLoss(pit_loss, weather, qualifying_position) ==
    LET wet == IF weather = "wet" THEN (pit_loss * 11) \div 10 ELSE pit_loss
    IN IF Truthy(qualifying_position)
       THEN LET position == qualifying_position[1]
            IN IF position <= 3 THEN (wet * 21) \div 20
               ELSE IF 4 <= position /\ position <= 10 THEN wet
               ELSE (wet * 19) \div 20
       ELSE wet

\* lines 143-147: the list `results` when the loops end
SimulateAll(laps_total, df, pit_loss, circuit_type, weather, qualifying_position) ==
    LET compound_options == Unique(CompoundColumn(df))
        tyre_life == AdjustedTyreLife(df, weather)
        pit == AdjustedPitLoss(pit_loss, weather, qualifying_position)
        options == StintCountOptions(circuit_type, qualifying_position)
        SimsOf(num_stints) ==
            LET sequences == _generate_compound_sequences(compound_options, num_stints, weather)
            IN [j \in 1..Len(sequences) |->
                  simulate_strategy(laps_total, sequences[j], df, pit, Some(tyre_life))]
        RECURSIVE Collect(_)
        Collect(i) == IF i > Len(options) THEN <<>>
                      ELSE SimsOf(options[i]) \o Collect(i + 1)
    IN Collect(1)

\* line 153: the compounds joined by the arrow separator, written " -> " here
RECURSIVE Join(_)
Join(seq) ==
    IF Len(seq) = 0 THEN ""
    ELSE IF Len(seq) = 1 THEN seq[1]
    ELSE seq[1] \o " -> " \o Join(Tail(seq))

\* the table left in the order the sequences were simulated
unsorted_values(rows) == rows

\* DataFrame.sort_values("TotalTime_s"): ascending; numpy's sort of a short
\* array is an insertion sort, which keeps equal keys in their order
RECURSIVE sort_values(_)
sort_values(rows) ==
    IF rows = <<>> THEN <<>>
    ELSE LET sorted == sort_values(SubSeq(rows, 1, Len(rows) - 1))
             x == rows[Len(rows)]
             before == SelectSeq(sorted, LAMBDA r : r.TotalTime_s <= x.TotalTime_s)
             after == SelectSeq(sorted, LAMBDA r : r.TotalTime_s > x.TotalTime_s)
         IN before \o <<x>> \o after

\* lines 152-155
RankedTable(sims) ==
    [cols |-> {"Strategy", "TotalTime_s"},
     rows |-> sort_values([i \in 1..Len(sims) |->
                 [Strategy |-> Join(sims[i].sequence),
                  TotalTime_s |-> sims[i].total_race_time_s]])]

\* lines 149-158 without the `if not results` guard: sort_values on the frame
\* built from an empty list raises KeyError
ReturnUnguarded(sims) ==
    IF sims = <<>>
    THEN [raised |-> "KeyError", best |-> None, table |-> EmptyDataFrame, results |-> sims]
    ELSE LET results_df == RankedTable(sims)
         IN [raised |-> "", best |-> Some(results_df.rows[1]),
             table |-> results_df, results |-> sims]

\* lines 149-158: (None, pd.DataFrame()) for no results, else the first row of the
\* ranked table and the table
ReturnBestAndTable(sims) ==
    IF sims = <<>>
    THEN [raised |-> "", best |-> None, table |-> EmptyDataFrame, results |-> sims]
    ELSE LET results_df == RankedTable(sims)
         IN [raised |-> "", best |-> Some(results_df.rows[1]),
             table |-> results_df, results |-> sims]

\* returns (best, results_df); raised names the exception when one escapes,
\* results is the local list of simulations when the function ends
recommend_optimal_strategy(laps_total, df, pit_loss, circuit_type, weather, qualifying_position) ==
    IF "Compound" \notin df.cols
    THEN [raised |-> "KeyError", best |-> None, table |-> EmptyDataFrame, results |-> <<>>]
    ELSE ReturnBestAndTable(SimulateAll(laps_total, df, pit_loss, circuit_type, weather,
                                        qualifying_position))

----------------------------------------------------------------------------
(* Inputs                                                                  *)

\* groupby sorts the compounds: HARD before MEDIUM
Compounds == <<"HARD", "MEDIUM">>

\* mean lap times, in seconds: 96 exceeds 1.05 x 90, 94 does not
LapTimes == {90, 94, 96}

\* the curves of one compound: <<>> when the compound is absent
Curves(times, maxlen) == UNION {[1..n -> times] : n \in 0..maxlen}

RECURSIVE TableRows(_, _)
TableRows(curves, i) ==
    IF i > Len(Compounds) THEN <<>>
    ELSE [j \in 1..Len(curves[i]) |->
             [Compound |-> Compounds[i], LapIndex |-> j, LapTime_s |-> curves[i][j]]]
         \o TableRows(curves, i + 1)

\* the tables average_degradation produces: sorted by Compound, then LapIndex 1..N
DegradationTables(times, maxlen) ==
    {[cols |-> DegradationCols, rows |-> TableRows(curves, 1)] :
        curves \in [1..Len(Compounds) -> Curves(times, maxlen)]}

\* pit losses in seconds
PitLosses == {20}

Weathers == {"dry", "wet", "light rain"}

CircuitTypes == {"high_deg", "low_deg", "balanced"}

\* no position, and the positions on each side of the two class boundaries
QualifyingPositions == {None, Some(3), Some(4), Some(10), Some(11)}

----------------------------------------------------------------------------
(* Spec: one strategy request, recommend_optimal_strategy on a degradation *)
(* table                                                                   *)

Init ==
    /\ laps = NoValue
    /\ stints = NoValue
    /\ degradation = NoValue
    /\ degradation_df \in DegradationTables({90, 96}, MaxCurveLen)
    /\ total_laps \in 0..MaxLaps
    /\ call = NoCall
    /\ locals = NoValue
    /\ ret = NoValue

Recommend ==
    /\ call = NoCall
    /\ \E pit_loss \in PitLosses, circuit_type \in CircuitTypes, weather \in Weathers,
          qualifying_position \in QualifyingPositions :
          LET r == recommend_optimal_strategy(total_laps, degradation_df,
                       pit_loss * TimeScale, circuit_type, weather, qualifying_position)
          IN /\ call' = [fn |-> "recommend_optimal_strategy", pit_loss |-> pit_loss,
                         circuit_type |-> circuit_type, weather |-> weather,
                         qualifying_position |-> qualifying_position]
             /\ locals' = [results |-> r.results,
                           tyre_life |-> AdjustedTyreLife(degradation_df, weather),
                           stint_count_options |->
                               StintCountOptions(circuit_type, qualifying_position),
                           pit_loss |-> AdjustedPitLoss(pit_loss * TimeScale, weather,
                                                        qualifying_position)]
             /\ ret' = [raised |-> r.raised, best |-> r.best, table |-> r.table]
    /\ UNCHANGED <<laps, stints, degradation, degradation_df, total_laps>>

Next == Recommend

Spec == Init /\ [][Next]_vars

----------------------------------------------------------------------------
(* Properties of recommend_optimal_strategy, stated over Spec              *)

Recommended == call.fn = "recommend_optimal_strategy"

\* the list `results` of the call: one simulation per candidate sequence
results == locals.results

\* the compounds present in the degradation table
CompoundsOf(df) == {df.rows[i].Compound : i \in 1..Len(df.rows)}

\* the stint counts the call searches, as a set
StintCounts == LET options == StintCountOptions(call.circuit_type, call.qualifying_position)
               IN {options[k] : k \in 1..Len(options)}

\* the legality rule of the specification: every ordered sequence of n available
\* compounds, in the dry with at least two distinct compounds
LegalSequences(n) ==
    {seq \in [1..n -> CompoundsOf(degradation_df)] :
        call.weather # "dry" \/ Cardinality({seq[i] : i \in 1..n}) >= 2}

AllLegalSequences == UNION {LegalSequences(n) : n \in StintCounts}

StintLaps(sim) == [k \in 1..Len(sim.stints) |-> sim.stints[k].Laps]

\* C1: for total_laps >= 1, the Laps of every simulated sequence's stints sum to
\* exactly total_laps, each stint being min(tyre life of its compound, laps remaining)
\* (stated for the calls whose tyre lives are all at least one lap)
C1_StintLapsSumToTotalLaps ==
    (Recommended /\ total_laps >= 1 /\ ret.best # None) =>
        LET life == AdjustedTyreLife(degradation_df, call.weather)
        IN (\A c \in DOMAIN life : life[c] >= 1) => \A i \in 1..Len(results) :
              LET lens == StintLaps(results[i])
              IN /\ SumSeq(lens) = total_laps
                 /\ \A k \in 1..Len(lens) :
                       lens[k] = Min(life[results[i].stints[k].Compound],
                                     total_laps - SumSeq(SubSeq(lens, 1, k - 1)))

\* C3: in the dry every simulated sequence, and so every row of the ranked table,
\* uses at least two distinct compounds; in any other weather the candidates of
\* stint count n are all the |compounds|^n ordered sequences, n <= 3
C3_DrySequencesUseTwoCompounds ==
    Recommended =>
        /\ call.weather = "dry" =>
              /\ \A i \in 1..Len(results) : DistinctCount(results[i].sequence) >= 2
              /\ \A j \in 1..Len(ret.table.rows) :
                    \E i \in 1..Len(results) :
                       /\ ret.table.rows[j].Strategy = Join(results[i].sequence)
                       /\ DistinctCount(results[i].sequence) >= 2
        /\ call.weather # "dry" =>
              \A n \in StintCounts :
                 LET idx == {i \in 1..Len(results) : Len(results[i].sequence) = n}
                     size == Cardinality(CompoundsOf(degradation_df))
                 IN /\ n <= 3
                    /\ {results[i].sequence : i \in idx} = [1..n -> CompoundsOf(degradation_df)]
                    /\ Cardinality(idx) = size ^ n
                    /\ Cardinality({j \in 1..Len(ret.table.rows) :
                           \E i \in idx : ret.table.rows[j].Strategy = Join(results[i].sequence)})
                       = size ^ n

C3_Witness ==
    /\ Recommended
    /\ call.weather = "dry"
    /\ Len(ret.table.rows) >= 2
    /\ \E i \in 1..Len(results) : Len(results[i].sequence) = 3

C10_RankedAscendingBestIsMinimum ==
    (Recommended /\ ret.best # None) =>
        LET rows == ret.table.rows
            life == AdjustedTyreLife(degradation_df, call.weather)
            pit == AdjustedPitLoss(call.pit_loss * TimeScale, call.weather,
                                   call.qualifying_position)
            Total(seq) == simulate_strategy(total_laps, seq, degradation_df, pit,
                                            Some(life)).total_race_time_s
        IN /\ Len(rows) = Cardinality(AllLegalSequences)
           /\ \A seq \in AllLegalSequences :
                 Cardinality({j \in 1..Len(rows) : rows[j].Strategy = Join(seq)}) = 1
           /\ \A j \in 1..Len(rows) - 1 : rows[j].TotalTime_s <= rows[j + 1].TotalTime_s
           /\ ret.best = Some(rows[1])
           /\ \A seq \in AllLegalSequences : rows[1].TotalTime_s <= Total(seq)
           /\ \E seq \in AllLegalSequences :
                 /\ rows[1].TotalTime_s = Total(seq)
                 /\ rows[1].Strategy = Join(seq)

\* the first simulated sequence is not the fastest: the sort decides the ranking
C10_Witness ==
    /\ Recommended
    /\ ret.best # None
    /\ ret.best[1].TotalTime_s < results[1].total_race_time_s

\* the local variables of the call when it ends
stint_count_options == {locals.stint_count_options[k] :
                           k \in 1..Len(locals.stint_count_options)}

\* the pit loss of the call after the weather step of line 113, before the
\* qualifying-position step, in ticks
PitLossAfterWeather ==
    IF call.weather = "wet" THEN (call.pit_loss * TimeScale * 11) \div 10
    ELSE call.pit_loss * TimeScale

\* C11: a qualifying position >= 1 decides the stint counts searched and the
\* pit-loss bias whatever the circuit type: 1-3 search {1,2} with pit loss x1.05,
\* 4-10 search {2} with pit loss unbiased, 11 and more search {2,3} with pit loss
\* x0.95; without a position the circuit type decides, {2,3} for high_deg and
\* {1,2} for low_deg and balanced, and every simulated sequence has a searched length
C11_QualifyingPositionDecidesSearch ==
    Recommended =>
        LET position == call.qualifying_position
        IN /\ (position # None /\ position[1] >= 1 /\ position[1] <= 3) =>
                 /\ stint_count_options = {1, 2}
                 /\ 20 * locals.pit_loss = 21 * PitLossAfterWeather
           /\ (position # None /\ position[1] >= 4 /\ position[1] <= 10) =>
                 /\ stint_count_options = {2}
                 /\ locals.pit_loss = PitLossAfterWeather
           /\ (position # None /\ position[1] >= 11) =>
                 /\ stint_count_options = {2, 3}
                 /\ 20 * locals.pit_loss = 19 * PitLossAfterWeather
           /\ position = None =>
                 /\ stint_count_options =
                       (IF call.circuit_type = "high_deg" THEN {2, 3} ELSE {1, 2})
                 /\ locals.pit_loss = PitLossAfterWeather
           /\ \A i \in 1..Len(results) :
                 Len(results[i].sequence) \in stint_count_options

\* a front-row start on a high-degradation circuit: the position, not the circuit,
\* gave the one-stint candidates that were simulated
C11_Witness ==
    /\ Recommended
    /\ call.qualifying_position = Some(3)
    /\ call.circuit_type = "high_deg"
    /\ call.weather = "wet"
    /\ \E i \in 1..Len(results) : Len(results[i].sequence) = 1

\* the qualifying-position bias of lines 129-140, in twentieths
BiasTwentieths(position) ==
    IF position = None THEN 20
    ELSE IF position[1] <= 3 THEN 21
    ELSE IF position[1] <= 10 THEN 20
    ELSE 19

\* C12: in the dry the tyre lives and the pit loss are used unchanged; in every
\* other weather, whatever its name, every tyre life is scaled by 0.7 (and cut to an
\* integer) and the pit loss is inflated by 10% before the qualifying-position bias
C12_WeatherScalesLifeAndPitLoss ==
    Recommended =>
        LET life == estimate_tyre_life(degradation_df)
            base == call.pit_loss * TimeScale
            bias == BiasTwentieths(call.qualifying_position)
        IN /\ DOMAIN locals.tyre_life = DOMAIN life
           /\ call.weather = "dry" =>
                 /\ locals.tyre_life = life
                 /\ 20 * locals.pit_loss = bias * base
           /\ call.weather # "dry" =>
                 /\ \A k \in DOMAIN life : locals.tyre_life[k] = (life[k] * 7) \div 10
                 /\ 200 * locals.pit_loss = bias * 11 * base

----------------------------------------------------------------------------
(* SpecSimulate: simulate_strategy called directly, with any sequence of   *)
(* one to three compounds, any pit loss and any tyre-life argument         *)

\* HARD with any curve, MEDIUM absent or with a one-point curve
SimulateTables ==
    {[cols |-> DegradationCols, rows |-> TableRows(<<hard, medium>>, 1)] :
        hard \in Curves({90, 96}, MaxCurveLen), medium \in {<<>>, <<92>>}}

SimulateSequences == UNION {[1..n -> {"HARD", "MEDIUM"}] : n \in 1..3}

\* tyre_life: None (estimated from the table), the empty dict (every compound
\* gets the default), or a life of 0..MaxLife laps for both compounds
TyreLifeArguments ==
    {None, Some(<<>>)} \cup {Some(m) : m \in [{"HARD", "MEDIUM"} -> 0..MaxLife]}

SimulatePitLosses == {0, 20}

InitSimulate ==
    /\ laps = NoValue
    /\ stints = NoValue
    /\ degradation = NoValue
    /\ degradation_df \in SimulateTables
    /\ total_laps \in 0..MaxLaps
    /\ call = NoCall
    /\ locals = NoValue
    /\ ret = NoValue

Simulate ==
    /\ call = NoCall
    /\ \E compound_sequence \in SimulateSequences, pit_loss \in SimulatePitLosses,
          tyre_life \in TyreLifeArguments :
          /\ call' = [fn |-> "simulate_strategy", compound_sequence |-> compound_sequence,
                      pit_loss |-> pit_loss, tyre_life |-> tyre_life]
          /\ ret' = simulate_strategy(total_laps, compound_sequence, degradation_df,
                                      pit_loss * TimeScale, tyre_life)
    /\ UNCHANGED <<laps, stints, degradation, degradation_df, total_laps, locals>>

NextSimulate == Simulate

SpecSimulate == InitSimulate /\ [][NextSimulate]_vars

Simulated == call.fn = "simulate_strategy"

StintTimes(sim) == [k \in 1..Len(sim.stints) |-> sim.stints[k].Time_s]

\* C2: the pit loss is charged once between consecutive simulated stints and never
\* after the last one: total = sum of the stint times + pit loss x (stints - 1)
\* (stated for the calls in which every simulated stint covers at least one lap)
C2_PitLossOnlyBetweenStints ==
    (Simulated /\ \A k \in 1..Len(ret.stints) : ret.stints[k].Laps >= 1) =>
        ret.total_race_time_s =
            SumSeq(StintTimes(ret))
            + call.pit_loss * TimeScale * (Len(ret.stints) - 1)

\* C4: for fixed laps, sequence, curve and tyre life, a larger pit loss never gives
\* a smaller total, and the stint breakdown does not depend on the pit loss
C4_TotalMonotoneInPitLoss ==
    Simulated =>
        \A p \in {0, 5, 20, 25} :
            LET other == simulate_strategy(total_laps, call.compound_sequence,
                             degradation_df, p * TimeScale, call.tyre_life)
            IN /\ call.pit_loss <= p => ret.total_race_time_s <= other.total_race_time_s
               /\ p <= call.pit_loss => other.total_race_time_s <= ret.total_race_time_s
               /\ other.stints = ret.stints

\* a call in which a pit loss is charged: the larger pit loss gives a larger total
C4_Witness ==
    /\ Simulated
    /\ call.pit_loss = 0
    /\ Len(ret.stints) >= 2
    /\ ret.total_race_time_s <
          simulate_strategy(total_laps, call.compound_sequence, degradation_df,
                            20 * TimeScale, call.tyre_life).total_race_time_s

----------------------------------------------------------------------------
(* SpecTyreLife: estimate_tyre_life on a degradation table                 *)

InitTyreLife ==
    /\ laps = NoValue
    /\ stints = NoValue
    /\ degradation = NoValue
    /\ degradation_df \in DegradationTables(LapTimes, MaxLapIndex)
    /\ total_laps = 0
    /\ call = NoCall
    /\ locals = NoValue
    /\ ret = NoValue

EstimateTyreLife ==
    /\ call = NoCall
    /\ call' = [fn |-> "estimate_tyre_life"]
    /\ ret' = estimate_tyre_life(degradation_df)
    /\ UNCHANGED <<laps, stints, degradation, degradation_df, total_laps, locals>>

NextTyreLife == EstimateTyreLife

SpecTyreLife == InitTyreLife /\ [][NextTyreLife]_vars

Estimated == call.fn = "estimate_tyre_life"

\* the mean lap time of a compound at a lap index
CurveValue(df, compound, index) ==
    LET r == CHOOSE r \in {df.rows[i] : i \in 1..Len(df.rows)} :
                r.Compound = compound /\ r.LapIndex = index
    IN r.LapTime_s

\* the largest LapIndex of a compound
MaxLapIndexOf(df, compound) ==
    Cardinality({i \in 1..Len(df.rows) : df.rows[i].Compound = compound})

\* C5: every compound present gets a life L with 1 <= L <= max LapIndex: the first
\* LapIndex whose mean lap time is strictly above 1.05 x the time at LapIndex 1,
\* or the maximum LapIndex when no lap is above it
C5_TyreLifeIsFirstLapOverThreshold ==
    Estimated =>
        /\ DOMAIN ret = CompoundsOf(degradation_df)
        /\ \A c \in CompoundsOf(degradation_df) :
              LET n == MaxLapIndexOf(degradation_df, c)
                  over == {i \in 1..n : 100 * CurveValue(degradation_df, c, i)
                                          > 105 * CurveValue(degradation_df, c, 1)}
              IN /\ 1 <= ret[c] /\ ret[c] <= n
                 /\ over # {} => (ret[c] \in over /\ \A i \in over : ret[c] <= i)
                 /\ over = {} => ret[c] = n

\* one compound wears out before its last lap, the other lasts a curve that rises
\* without passing the threshold
C5_Witness ==
    /\ Estimated
    /\ CompoundsOf(degradation_df) = {"HARD", "MEDIUM"}
    /\ ret["HARD"] = 2 /\ MaxLapIndexOf(degradation_df, "HARD") = 3
    /\ ret["MEDIUM"] = 3
    /\ CurveValue(degradation_df, "MEDIUM", 2) = 94

\* C19 (over Spec): the tyre-life map recommend_optimal_strategy hands to
\* simulate_strategy has, after the weather scaling, for every compound a life of
\* at least 1 and at most the compound's maximum LapIndex; so in a race of at least
\* one lap every simulated stint covers at least one lap
C19_ScaledTyreLifeAtLeastOne ==
    Recommended =>
        /\ \A k \in DOMAIN locals.tyre_life :
              /\ 1 <= locals.tyre_life[k]
              /\ locals.tyre_life[k] <= MaxLapIndexOf(degradation_df, k)
        /\ total_laps >= 1 =>
              \A i \in 1..Len(results) : \A k \in 1..Len(results[i].stints) :
                 results[i].stints[k].Laps >= 1

----------------------------------------------------------------------------
(* strategy_analysis.py: compute_stint_data and average_degradation        *)
(*                                                                         *)
(* A lap row is [Driver, LapNumber, Compound, Stint, LapTime]; LapTime is  *)
(* None (NaT) or Some(seconds).  The values of the optional Time column    *)
(* are never read by the code, so only its presence in cols is modelled.   *)

\* the sorted values of the key columns, as groupby orders them
Drivers == <<"HAM", "VER">>

Stints == <<1, 2>>

\* a row with one more column (or one column overwritten)
AssignColumn(row, name, value) ==
    [f \in DOMAIN row \cup {name} |-> IF f = name THEN value ELSE row[f]]

\* Timedelta.total_seconds()
total_seconds(lap_time) == lap_time[1]

\* line 20-21: dropna(subset=['LapTime']) and the LapTime_s column
DropMissingLapTime(rows) ==
    LET kept == SelectSeq(rows, LAMBDA r : r.LapTime # None)
    IN [i \in 1..Len(kept) |->
          AssignColumn(kept[i], "LapTime_s", total_seconds(kept[i].LapTime))]

\* line 23: LapTime_s = NaN on every row (NaN is written None)
NaNLapTime(rows) ==
    [i \in 1..Len(rows) |-> AssignColumn(rows[i], "LapTime_s", None)]

\* the order of sort_values(['LapNumber', 'Stint'])
LapOrderLeq(a, b) ==
    \/ a.LapNumber < b.LapNumber
    \/ a.LapNumber = b.LapNumber /\ a.Stint <= b.Stint

\* line 27: sort_values(['LapNumber', 'Stint']), a stable sort on the two keys
RECURSIVE SortByLapNumber(_)
SortByLapNumber(rows) ==
    IF rows = <<>> THEN <<>>
    ELSE LET sorted == SortByLapNumber(SubSeq(rows, 1, Len(rows) - 1))
             x == rows[Len(rows)]
             before == SelectSeq(sorted, LAMBDA r : LapOrderLeq(r, x))
             after == SelectSeq(sorted, LAMBDA r : ~LapOrderLeq(r, x))
         IN before \o <<x>> \o after

\* the rows as the else branch (line 31) leaves them: in frame order
KeepFrameOrder(rows) == rows

\* lines 29 and 31: groupby('Driver')['LapTime_s'].cumsum(), in frame order
CumSumByDriver(rows, nan) ==
    [i \in 1..Len(rows) |->
       LET mine == {j \in 1..i : rows[j].Driver = rows[i].Driver}
           RECURSIVE Total(_)
           Total(js) == IF js = {} THEN 0
                        ELSE LET j == CHOOSE j \in js : TRUE
                             IN rows[j].LapTime_s + Total(js \ {j})
       IN IF nan THEN None ELSE Total(mine)]

WithRaceTime(rows, nan) ==
    LET race == CumSumByDriver(rows, nan)
    IN [i \in 1..Len(rows) |-> AssignColumn(rows[i], "RaceTime_s", race[i])]

\* lines 26-31: the Time column decides whether the rows are sorted first
OrderForCumSum(rows, has_time) ==
    IF has_time THEN SortByLapNumber(rows) ELSE KeepFrameOrder(rows)

\* DataFrame.empty: an axis of length 0
IsEmpty(df) == df.cols = {} \/ df.rows = <<>>

compute_stint_data(lap_table) ==
    IF IsEmpty(lap_table) THEN EmptyDataFrame
    ELSE LET has_lap_time == "LapTime" \in lap_table.cols
             df == IF has_lap_time THEN DropMissingLapTime(lap_table.rows)
                   ELSE NaNLapTime(lap_table.rows)
             ordered == OrderForCumSum(df, "Time" \in lap_table.cols)
         IN [cols |-> lap_table.cols \cup {"LapTime_s", "RaceTime_s"},
             rows |-> WithRaceTime(ordered, ~has_lap_time)]

\* the index counted from 0
LapIndexFromZero(n) == [i \in 1..n |-> i - 1]

\* line 41: range(1, len(x) + 1)
LapIndexRange(n) == [i \in 1..n |-> i]

\* the group keys (Driver, Compound, Stint) in groupby's sorted order
GroupKeys(rows) ==
    LET nc == Len(Compounds)
        ns == Len(Stints)
        all == [k \in 1..(Len(Drivers) * nc * ns) |->
                  [Driver |-> Drivers[((k - 1) \div (nc * ns)) + 1],
                   Compound |-> Compounds[(((k - 1) \div ns) % nc) + 1],
                   Stint |-> Stints[((k - 1) % ns) + 1]]]
    IN SelectSeq(all, LAMBDA key :
          \E i \in 1..Len(rows) : /\ rows[i].Driver = key.Driver
                                  /\ rows[i].Compound = key.Compound
                                  /\ rows[i].Stint = key.Stint)

\* lines 39-43: each group with its LapIndex column, the groups concatenated
AssignLapIndex(rows) ==
    LET keys == GroupKeys(rows)
        Group(key) ==
            LET x == SelectSeq(rows, LAMBDA r : /\ r.Driver = key.Driver
                                                /\ r.Compound = key.Compound
                                                /\ r.Stint = key.Stint)
                index == LapIndexRange(Len(x))
            IN [i \in 1..Len(x) |-> AssignColumn(x[i], "LapIndex", index[i])]
        RECURSIVE Concat(_)
        Concat(k) == IF k > Len(keys) THEN <<>> ELSE Group(keys[k]) \o Concat(k + 1)
    IN Concat(1)

\* the largest LapIndex value of the frame, 0 for no rows
RECURSIVE LargestLapIndex(_)
LargestLapIndex(rows) ==
    IF rows = <<>> THEN 0 ELSE Max(Head(rows).LapIndex, LargestLapIndex(Tail(rows)))

\* lines 45-48: groupby(['Compound', 'LapIndex'], as_index=False).agg mean; one
\* row per key, keys sorted.  The mean is the fraction num/den, left unreduced.
MeanByCompoundAndIndex(rows) ==
    LET width == LargestLapIndex(rows) + 1
        \* every compound with every index 0..largest, in sorted order
        all == [k \in 1..(Len(Compounds) * width) |->
                  [Compound |-> Compounds[((k - 1) \div width) + 1],
                   LapIndex |-> (k - 1) % width]]
        Members(key) == SelectSeq(rows, LAMBDA r : /\ r.Compound = key.Compound
                                                   /\ r.LapIndex = key.LapIndex)
        keys == SelectSeq(all, LAMBDA key : Members(key) # <<>>)
    IN [k \in 1..Len(keys) |->
          LET m == Members(keys[k])
          IN [Compound |-> keys[k].Compound, LapIndex |-> keys[k].LapIndex,
              LapTime_s |-> [num |-> SumSeq([i \in 1..Len(m) |-> m[i].LapTime_s]),
                             den |-> Len(m)]]]

\* groupby.apply on a frame without rows never calls the lambda: the result keeps
\* the columns of the input and has no LapIndex column
average_degradation(stint_table) ==
    IF ~({"Driver", "Compound", "Stint"} \subseteq stint_table.cols)
    THEN [raised |-> "KeyError", value |-> None, degradation |-> None]
    ELSE IF stint_table.rows = <<>>
    THEN [raised |-> "KeyError", value |-> None,
          degradation |-> Some([cols |-> stint_table.cols, rows |-> <<>>])]
    ELSE IF "LapTime_s" \notin stint_table.cols
    THEN [raised |-> "KeyError", value |-> None, degradation |-> None]
    ELSE LET indexed == AssignLapIndex(stint_table.rows)
         IN [raised |-> "",
             value |-> Some([cols |-> DegradationCols,
                             rows |-> MeanByCompoundAndIndex(indexed)]),
             degradation |-> Some([cols |-> stint_table.cols \cup {"LapIndex"},
                                   rows |-> indexed])]

----------------------------------------------------------------------------
(* SpecAggregate: app.py's pipeline on a loaded lap table,                 *)
(* stints = compute_stint_data(laps); degradation = average_degradation(stints) *)

LapCols == {"Driver", "LapNumber", "Compound", "Stint", "LapTime"}

LapNumbers == {1, 2, 3}

\* the lap on which every driver changes from MEDIUM (stint 1) to HARD (stint 2);
\* 4 is a race without a stop
PitLaps == {2, 4}

\* the lap time of a driver on a lap, in seconds, when it was recorded
ObservedSeconds(driver, lap) == 88 + 2 * lap + (IF driver = "HAM" THEN 1 ELSE 0)

LapRecords(pit_lap) ==
    {[Driver |-> Drivers[d], LapNumber |-> n,
      Compound |-> IF n < pit_lap THEN "MEDIUM" ELSE "HARD",
      Stint |-> IF n < pit_lap THEN 1 ELSE 2,
      LapTime |-> IF recorded THEN Some(ObservedSeconds(Drivers[d], n)) ELSE None] :
        d \in 1..Len(Drivers), n \in LapNumbers, recorded \in BOOLEAN}

\* rows in any order, one row per driver and lap
RowSequences(pit_lap) ==
    {rows \in UNION {[1..n -> LapRecords(pit_lap)] : n \in 0..MaxRows} :
        \A i, j \in 1..Len(rows) :
            (rows[i].Driver = rows[j].Driver /\ rows[i].LapNumber = rows[j].LapNumber)
            => i = j}

LapTables ==
    {EmptyDataFrame} \cup
    {[cols |-> LapCols \cup time, rows |-> rows] :
        time \in {{}, {"Time"}}, rows \in UNION {RowSequences(p) : p \in PitLaps}}

InitAggregate ==
    /\ laps \in LapTables
    /\ stints = NoValue
    /\ degradation = NoValue
    /\ degradation_df = NoValue
    /\ total_laps = 0
    /\ call = NoCall
    /\ locals = NoValue
    /\ ret = NoValue

ComputeStintData ==
    /\ call = NoCall
    /\ call' = [fn |-> "compute_stint_data"]
    /\ stints' = compute_stint_data(laps)
    /\ ret' = stints'
    /\ UNCHANGED <<laps, degradation, degradation_df, total_laps, locals>>

AverageDegradation ==
    /\ call.fn = "compute_stint_data"
    /\ LET r == average_degradation(stints)
       IN /\ call' = [fn |-> "average_degradation"]
          /\ ret' = [raised |-> r.raised, value |-> r.value]
          /\ locals' = [degradation |-> r.degradation]
          /\ degradation' = IF r.raised = "" THEN r.value[1] ELSE degradation
    /\ UNCHANGED <<laps, stints, degradation_df, total_laps>>

NextAggregate == ComputeStintData \/ AverageDegradation

SpecAggregate == InitAggregate /\ [][NextAggregate]_vars

\* stints has been computed from laps
StintsComputed == call.fn \in {"compute_stint_data", "average_degradation"}

Averaged == call.fn = "average_degradation"

\* C6: a driver's RaceTime_s on a lap is the sum of that driver's LapTime_s over the
\* retained laps up to that LapNumber, the rows without a lap time are dropped, and
\* RaceTime_s does not decrease with LapNumber
C6_RaceTimeIsRunningSumInLapOrder ==
    (StintsComputed /\ ~IsEmpty(laps)) =>
        LET rows == stints.rows
            n == Len(rows)
            UpTo(i) == {j \in 1..n : /\ rows[j].Driver = rows[i].Driver
                                     /\ rows[j].LapNumber <= rows[i].LapNumber}
            RECURSIVE Total(_)
            Total(js) == IF js = {} THEN 0
                         ELSE LET j == CHOOSE j \in js : TRUE
                              IN rows[j].LapTime_s + Total(js \ {j})
            kept == SelectSeq(laps.rows, LAMBDA r : r.LapTime # None)
        IN /\ n = Len(kept)
           /\ \A k \in 1..Len(kept) :
                 \E i \in 1..n : /\ rows[i].Driver = kept[k].Driver
                                 /\ rows[i].LapNumber = kept[k].LapNumber
                                 /\ rows[i].LapTime_s = kept[k].LapTime[1]
           /\ \A i \in 1..n : rows[i].RaceTime_s = Total(UpTo(i))
           /\ \A i, j \in 1..n :
                 (rows[i].Driver = rows[j].Driver /\ rows[i].LapNumber <= rows[j].LapNumber)
                 => rows[i].RaceTime_s <= rows[j].RaceTime_s

\* the rows of a (Driver, Compound, Stint) group of a frame
GroupIndices(rows, driver, compound, stint) ==
    {i \in 1..Len(rows) : /\ rows[i].Driver = driver
                          /\ rows[i].Compound = compound
                          /\ rows[i].Stint = stint}

\* C7: in every (Driver, Compound, Stint) group of N laps the LapIndex values are
\* exactly 1..N, each once; the degradation curve holds, per compound, exactly one
\* mean for each LapIndex, with LapIndex strictly increasing
C7_LapIndexContiguousPerStint ==
    (Averaged /\ ret.raised = "") =>
        LET indexed == locals.degradation[1].rows
            curve == ret.value[1].rows
        IN /\ Len(indexed) = Len(stints.rows)
           /\ \A d \in 1..Len(Drivers), c \in 1..Len(Compounds), s \in 1..Len(Stints) :
                 LET n == Cardinality(GroupIndices(stints.rows, Drivers[d], Compounds[c], Stints[s]))
                     idx == GroupIndices(indexed, Drivers[d], Compounds[c], Stints[s])
                 IN /\ Cardinality(idx) = n
                    /\ {indexed[i].LapIndex : i \in idx} = 1..n
           /\ \A i \in 1..Len(indexed) :
                 Cardinality({k \in 1..Len(curve) :
                                 /\ curve[k].Compound = indexed[i].Compound
                                 /\ curve[k].LapIndex = indexed[i].LapIndex}) = 1
           /\ \A k \in 1..Len(curve) :
                 curve[k].LapTime_s.den =
                    Cardinality({i \in 1..Len(indexed) :
                                    /\ indexed[i].Compound = curve[k].Compound
                                    /\ indexed[i].LapIndex = curve[k].LapIndex})
                 /\ curve[k].LapTime_s.den >= 1
           /\ \A k, m \in 1..Len(curve) :
                 (k < m /\ curve[k].Compound = curve[m].Compound)
                 => curve[k].LapIndex < curve[m].LapIndex

\* a stint of two laps, and a curve point that averages two drivers
C7_Witness ==
    /\ Averaged
    /\ ret.raised = ""
    /\ \E k \in 1..Len(ret.value[1].rows) : ret.value[1].rows[k].LapTime_s.den = 2
    /\ \E k \in 1..Len(ret.value[1].rows) : ret.value[1].rows[k].LapIndex = 2

\* C8: an empty lap table gives an empty stint table, and average_degradation of
\* that table gives an empty table without raising
C8_EmptyLapTableGivesEmptyTables ==
    IsEmpty(laps) =>
        /\ StintsComputed => stints.rows = <<>>
        /\ Averaged => (ret.raised = "" /\ ret.value # None /\ ret.value[1].rows = <<>>)

----------------------------------------------------------------------------
(* strategy_analysis.py: compute_gap_to_leader                             *)
(*                                                                         *)
(* A stint row is [Driver, LapNumber, RaceTime_s], the columns the         *)
(* function reads; RaceTime_s in whole seconds.                            *)

\* Series.idxmax(): the first row of the group holding the largest race time
idxmax(rows, group) ==
    CHOOSE i \in group :
        \A j \in group : /\ rows[j].RaceTime_s <= rows[i].RaceTime_s
                         /\ rows[j].RaceTime_s = rows[i].RaceTime_s => i <= j

\* line 64, Series.idxmin(): the first row of the group holding the smallest
\* race time
idxmin(rows, group) ==
    CHOOSE i \in group :
        \A j \in group : /\ rows[i].RaceTime_s <= rows[j].RaceTime_s
                         /\ rows[j].RaceTime_s = rows[i].RaceTime_s => i <= j

\* lines 64-65: groupby('LapNumber').apply(...), one LeaderTime_s per lap number
LeaderByLap(rows) ==
    [lap \in {rows[i].LapNumber : i \in 1..Len(rows)} |->
        LET g == {i \in 1..Len(rows) : rows[i].LapNumber = lap}
        IN rows[idxmin(rows, g)].RaceTime_s]

\* lines 66-67: the left merge keeps the rows of stints in their order
MergeLeader(rows) ==
    LET leader == LeaderByLap(rows)
    IN [i \in 1..Len(rows) |->
          LET with_leader == AssignColumn(rows[i], "LeaderTime_s", leader[rows[i].LapNumber])
          IN AssignColumn(with_leader, "GapToLeader_s",
                          rows[i].RaceTime_s - leader[rows[i].LapNumber])]

\* returns the merged frame; raised names the exception when one escapes
compute_gap_to_leader(stint_table) ==
    IF IsEmpty(stint_table) THEN [raised |-> "", merged |-> EmptyDataFrame]
    ELSE IF "RaceTime_s" \notin stint_table.cols \/ "LapNumber" \notin stint_table.cols
    THEN [raised |-> "ValueError", merged |-> EmptyDataFrame]
    ELSE [raised |-> "",
          merged |-> [cols |-> stint_table.cols \cup {"LeaderTime_s", "GapToLeader_s"},
                      rows |-> MergeLeader(stint_table.rows)]]

----------------------------------------------------------------------------
(* SpecGap: compute_gap_to_leader on a stint table                         *)

GapCols == {"Driver", "LapNumber", "RaceTime_s"}

\* the drivers of the stint table, as groupby orders them
GapDrivers == <<"HAM", "NOR", "VER">>

GapLaps == {1, 2}

\* cumulative race times in seconds; two drivers can hold the same one
RaceTimes == {180, 183}

\* at most MaxRows rows in any frame order, one row per driver and lap
GapRowSequences ==
    LET Records == {[Driver |-> GapDrivers[d], LapNumber |-> n, RaceTime_s |-> t] :
                       d \in 1..Len(GapDrivers), n \in GapLaps, t \in RaceTimes}
    IN UNION {{rows \in [1..n -> Records] :
                  \A i, j \in 1..n :
                     (i # j) => <<rows[i].Driver, rows[i].LapNumber>>
                                  # <<rows[j].Driver, rows[j].LapNumber>>} : n \in 1..MaxRows}

\* a frame without its RaceTime_s column
DropRaceTime(rows) ==
    [i \in 1..Len(rows) |-> [Driver |-> rows[i].Driver, LapNumber |-> rows[i].LapNumber]]

GapTables ==
    {EmptyDataFrame}
    \cup {[cols |-> GapCols, rows |-> rows] : rows \in GapRowSequences}
    \cup {[cols |-> GapCols \ {"RaceTime_s"}, rows |-> DropRaceTime(rows)] :
             rows \in {r \in GapRowSequences : Len(r) = 1}}

InitGap ==
    /\ laps = NoValue
    /\ stints \in GapTables
    /\ degradation = NoValue
    /\ degradation_df = NoValue
    /\ total_laps = 0
    /\ call = NoCall
    /\ locals = NoValue
    /\ ret = NoValue

ComputeGapToLeader ==
    /\ call = NoCall
    /\ call' = [fn |-> "compute_gap_to_leader"]
    /\ ret' = compute_gap_to_leader(stints)
    /\ UNCHANGED <<laps, stints, degradation, degradation_df, total_laps, locals>>

NextGap == ComputeGapToLeader

SpecGap == InitGap /\ [][NextGap]_vars

\* a gap frame was returned for a non-empty stint table
GapComputed ==
    /\ call.fn = "compute_gap_to_leader"
    /\ ~IsEmpty(stints)
    /\ ret.raised = ""

\* the rows of the gap frame on one lap
OnLap(lap) == {i \in 1..Len(ret.merged.rows) : ret.merged.rows[i].LapNumber = lap}

\* the drivers shown with a gap of zero on one lap
LeadersOnLap(lap) ==
    {ret.merged.rows[i].Driver : i \in {j \in OnLap(lap) : ret.merged.rows[j].GapToLeader_s = 0}}

\* on every lap LeaderTime_s is the minimum RaceTime_s of the drivers on the lap
\* and GapToLeader_s = RaceTime_s - LeaderTime_s >= 0, one row per row of stints
GapRelativeToMinimum ==
    LET merged == ret.merged.rows
    IN /\ Len(merged) = Len(stints.rows)
       /\ \A i \in 1..Len(merged) :
             /\ merged[i].Driver = stints.rows[i].Driver
             /\ merged[i].LapNumber = stints.rows[i].LapNumber
             /\ merged[i].RaceTime_s = stints.rows[i].RaceTime_s
             /\ \E j \in OnLap(merged[i].LapNumber) :
                   merged[i].LeaderTime_s = merged[j].RaceTime_s
             /\ \A j \in OnLap(merged[i].LapNumber) :
                   merged[i].LeaderTime_s <= merged[j].RaceTime_s
             /\ merged[i].GapToLeader_s = merged[i].RaceTime_s - merged[i].LeaderTime_s
             /\ merged[i].GapToLeader_s >= 0

\* C13 as stated: LeaderTime_s is the minimum RaceTime_s of each lap, every gap is
\* RaceTime_s - LeaderTime_s >= 0, and exactly one driver of each lap has gap 0,
\* also when two drivers have equal RaceTime_s on the lap
C13_ExactlyOneLeaderPerLap ==
    GapComputed =>
        /\ GapRelativeToMinimum
        /\ \A lap \in GapLaps :
              OnLap(lap) # {} => Cardinality(LeadersOnLap(lap)) = 1

\* C13 amended: LeaderTime_s is the minimum RaceTime_s of each lap, every gap is
\* RaceTime_s - LeaderTime_s >= 0, and the drivers with gap 0 are exactly those
\* whose RaceTime_s is the minimum of the lap: at least one, and exactly one when
\* no two drivers share the minimum
C13_LeadersAreTheDriversAtMinimum ==
    GapComputed =>
        /\ GapRelativeToMinimum
        /\ \A lap \in GapLaps :
              OnLap(lap) # {} =>
                 LET rows == ret.merged.rows
                     fastest == {rows[i].Driver :
                                   i \in {k \in OnLap(lap) :
                                            \A j \in OnLap(lap) :
                                               rows[k].RaceTime_s <= rows[j].RaceTime_s}}
                 IN /\ LeadersOnLap(lap) = fastest
                    /\ Cardinality(LeadersOnLap(lap)) >= 1
                    /\ (\A j, k \in OnLap(lap) :
                           (j # k) => rows[j].RaceTime_s # rows[k].RaceTime_s)
                       => Cardinality(LeadersOnLap(lap)) = 1

\* a lap with two drivers level in front and a third driver three seconds behind
C13_Witness ==
    /\ GapComputed
    /\ \E lap \in GapLaps :
          /\ Cardinality(LeadersOnLap(lap)) = 2
          /\ \E i \in OnLap(lap) : ret.merged.rows[i].GapToLeader_s = 3

----------------------------------------------------------------------------
(* strategy_analysis.py: detect_pit_stops_from_compound and                *)
(* simulate_undercut_overtake                                              *)
(*                                                                         *)
(* A lap row is [Driver, LapNumber, Compound, LapTime_s], without Compound *)
(* when the table has no such column; NaN is written None.                 *)

\* lap numbers of the duel's lap tables range over 1..MaxDuelLaps
MaxDuelLaps == 3

\* ticks per second of the duel: the mean of up to MaxDuelLaps lap times is exact
DuelScale == LcmUpTo(MaxDuelLaps)

\* the order of sort_values(['Driver', 'LapNumber'])
DriverLapLeq(a, b) ==
    \/ a.Driver = b.Driver /\ a.LapNumber <= b.LapNumber
    \/ a.Driver # b.Driver /\
          \E i, j \in 1..Len(Drivers) : i < j /\ Drivers[i] = a.Driver /\ Drivers[j] = b.Driver

\* line 79: laps.sort_values(['Driver', 'LapNumber'])
RECURSIVE SortByDriverLap(_)
SortByDriverLap(rows) ==
    IF rows = <<>> THEN <<>>
    ELSE LET sorted == SortByDriverLap(SubSeq(rows, 1, Len(rows) - 1))
             x == rows[Len(rows)]
             before == SelectSeq(sorted, LAMBDA r : DriverLapLeq(r, x))
             after == SelectSeq(sorted, LAMBDA r : ~DriverLapLeq(r, x))
         IN before \o <<x>> \o after

\* lines 80-85: one event per row whose compound differs from the compound of the
\* driver's previous row
RECURSIVE PitEvents(_, _)
PitEvents(sorted, i) ==
    IF i > Len(sorted) THEN <<>>
    ELSE LET changed == /\ i > 1
                        /\ sorted[i - 1].Driver = sorted[i].Driver
                        /\ sorted[i - 1].Compound # sorted[i].Compound
         IN (IF changed
             THEN <<[Driver |-> sorted[i].Driver, pit_lap |-> sorted[i].LapNumber,
                     prev_compound |-> sorted[i - 1].Compound,
                     next_compound |-> sorted[i].Compound]>>
             ELSE <<>>) \o PitEvents(sorted, i + 1)

\* returns the rows of the pit_events frame
detect_pit_stops_from_compound(lap_table) ==
    IF IsEmpty(lap_table) \/ "Compound" \notin lap_table.cols THEN <<>>
    ELSE PitEvents(SortByDriverLap(lap_table.rows), 1)

\* lines 110-111: the rows of one driver
LapsOf(lap_table, driver) == SelectSeq(lap_table.rows, LAMBDA r : r.Driver = driver)

\* line 113: int(laps['LapNumber'].max())
MaxLapNumber(lap_table) ==
    CHOOSE m \in {lap_table.rows[i].LapNumber : i \in 1..Len(lap_table.rows)} :
        \A i \in 1..Len(lap_table.rows) : lap_table.rows[i].LapNumber <= m

\* line 126: [max_lap // 2]
HalfwayLap(max_lap) == <<max_lap \div 2>>

\* lines 122-126: the detected pit laps of the rival, else the halfway lap
RivalPitLaps(lap_table, rival, max_lap) ==
    LET detected == detect_pit_stops_from_compound(lap_table)
        mine == SelectSeq(detected, LAMBDA e : e.Driver = rival)
    IN IF Len(mine) = 0 THEN HalfwayLap(max_lap)
       ELSE [k \in 1..Len(mine) |-> mine[k].pit_lap]

\* lines 130-138: the lap time of the lap, NaN when the driver has no row for it
ObservedLapTime(driver_laps, lap) ==
    IF \E i \in 1..Len(driver_laps) : driver_laps[i].LapNumber = lap
    THEN LET i == CHOOSE i \in 1..Len(driver_laps) : driver_laps[i].LapNumber = lap
         IN Some(driver_laps[i].LapTime_s)
    ELSE None

\* the pit delta taking the place of the lap time
ReplaceByPitDelta(time, pits, pit_delta_est) ==
    IF pits THEN Some(pit_delta_est) ELSE time

\* lines 141-146 and 149-153: the pit delta added to the lap time, or alone when
\* the lap time is NaN
ApplyPitDelta(time, pits, pit_delta_est) ==
    IF pits
    THEN (IF time # None THEN Some(time[1] + pit_delta_est) ELSE Some(pit_delta_est))
    ELSE time

\* lines 158 and 160: np.nanmean of the driver's own lap times
nanmean(driver_laps) ==
    SumSeq([i \in 1..Len(driver_laps) |-> driver_laps[i].LapTime_s]) \div Len(driver_laps)

\* a lap time still NaN counted as no time at all
BackfillZero(time, driver_laps) ==
    IF time = None THEN 0 ELSE time[1]

\* lines 156-160: a lap time still NaN becomes the driver's mean
Backfill(time, driver_laps) ==
    IF time = None THEN nanmean(driver_laps) ELSE time[1]

\* lines 130-160 for one of the two drivers: the time the driver is given on a lap
SimulatedLapTime(driver_laps, lap, pit_laps, pit_delta_est) ==
    LET pits == \E k \in 1..Len(pit_laps) : pit_laps[k] = lap
    IN Backfill(ApplyPitDelta(ObservedLapTime(driver_laps, lap), pits, pit_delta_est),
                driver_laps)

\* lines 128-165 for one of the two drivers: the loop from `lap` on, cum the
\* cumulative time so far and sim the list built so far
RECURSIVE CumulativeTimes(_, _, _, _, _, _, _)
CumulativeTimes(driver_laps, lap, max_lap, pit_laps, pit_delta_est, cum, sim) ==
    IF lap > max_lap THEN sim
    ELSE LET next == cum + SimulatedLapTime(driver_laps, lap, pit_laps, pit_delta_est)
         IN CumulativeTimes(driver_laps, lap + 1, max_lap, pit_laps, pit_delta_est,
                            next, Append(sim, next))

\* pit_delta_est in ticks; error is "" when a result is returned
simulate_undercut_overtake(lap_table, driver, rival, candidate_pit_lap, pit_delta_est) ==
    IF IsEmpty(lap_table) THEN [error |-> "lap data empty"]
    ELSE LET max_lap == MaxLapNumber(lap_table)
             rival_pit_laps == RivalPitLaps(lap_table, rival, max_lap)
             sim_d == CumulativeTimes(LapsOf(lap_table, driver), 1, max_lap,
                                      <<candidate_pit_lap>>, pit_delta_est, 0, <<>>)
             sim_r == CumulativeTimes(LapsOf(lap_table, rival), 1, max_lap,
                                      rival_pit_laps, pit_delta_est, 0, <<>>)
         IN [error |-> "",
             driver |-> driver,
             rival |-> rival,
             candidate_pit_lap |-> candidate_pit_lap,
             rival_pit_laps |-> rival_pit_laps,
             final_gap_s |-> sim_d[max_lap] - sim_r[max_lap],
             sim_driver_cum |-> sim_d,
             sim_rival_cum |-> sim_r]

----------------------------------------------------------------------------
(* SpecDuel: one undercut duel, simulate_undercut_overtake on a lap table  *)

DuelCols == {"Driver", "LapNumber", "Compound", "LapTime_s"}

\* what the table holds for a driver on a lap: no row, or a row on a compound
LapChoices == {"absent", "MEDIUM", "HARD"}

\* the rows of the laps from position k on, lap by lap and driver by driver, the
\* order compute_stint_data leaves them in
RECURSIVE DuelRows(_, _, _)
DuelRows(choice, has_compound, k) ==
    IF k > MaxDuelLaps * Len(Drivers) THEN <<>>
    ELSE LET lap == ((k - 1) \div Len(Drivers)) + 1
             d == ((k - 1) % Len(Drivers)) + 1
             time == ObservedSeconds(Drivers[d], lap) * DuelScale
             row == IF has_compound
                    THEN [Driver |-> Drivers[d], LapNumber |-> lap,
                          Compound |-> choice[<<d, lap>>], LapTime_s |-> time]
                    ELSE [Driver |-> Drivers[d], LapNumber |-> lap, LapTime_s |-> time]
         IN (IF choice[<<d, lap>>] = "absent" THEN <<>> ELSE <<row>>)
            \o DuelRows(choice, has_compound, k + 1)

\* the empty table, and the tables in which both drivers have at least one lap,
\* with or without the Compound column
DuelTables ==
    LET Choices == {c \in [(1..Len(Drivers)) \X (1..MaxDuelLaps) -> LapChoices] :
                       \A d \in 1..Len(Drivers) :
                          \E lap \in 1..MaxDuelLaps : c[<<d, lap>>] # "absent"}
    IN {EmptyDataFrame}
       \cup {[cols |-> DuelCols, rows |-> DuelRows(c, TRUE, 1)] : c \in Choices}
       \cup {[cols |-> DuelCols \ {"Compound"}, rows |-> DuelRows(c, FALSE, 1)] :
                c \in {x \in Choices : \A k \in DOMAIN x : x[k] # "HARD"}}

\* candidate pit laps, inside the race and on either side of it
CandidatePitLaps == 0..(MaxDuelLaps + 1)

\* pit delta estimates, in seconds
PitDeltas == {20}

InitDuel ==
    /\ laps \in DuelTables
    /\ stints = NoValue
    /\ degradation = NoValue
    /\ degradation_df = NoValue
    /\ total_laps = 0
    /\ call = NoCall
    /\ locals = NoValue
    /\ ret = NoValue

SimulateUndercutOvertake ==
    /\ call = NoCall
    /\ \E d, r \in 1..Len(Drivers), candidate_pit_lap \in CandidatePitLaps,
          pit_delta_est \in PitDeltas :
          /\ d # r
          /\ call' = [fn |-> "simulate_undercut_overtake", driver |-> Drivers[d],
                      rival |-> Drivers[r], candidate_pit_lap |-> candidate_pit_lap,
                      pit_delta_est |-> pit_delta_est]
          /\ ret' = simulate_undercut_overtake(laps, Drivers[d], Drivers[r],
                        candidate_pit_lap, pit_delta_est * DuelScale)
    /\ UNCHANGED <<laps, stints, degradation, degradation_df, total_laps, locals>>

NextDuel == SimulateUndercutOvertake

SpecDuel == InitDuel /\ [][NextDuel]_vars

\* a duel was simulated and a result returned
Duelled == call.fn = "simulate_undercut_overtake" /\ ret.error = ""

\* the laps of the table
maxLap == MaxLapNumber(laps)

\* the observed lap times of a driver, by lap
ObservedBy(driver) ==
    [lap \in {laps.rows[i].LapNumber : i \in {j \in 1..Len(laps.rows) :
                                                 laps.rows[j].Driver = driver}} |->
        ObservedSeconds(driver, lap) * DuelScale]

\* the sum of a function's values
RECURSIVE SumOver(_, _)
SumOver(f, S) == IF S = {} THEN 0
                 ELSE LET x == CHOOSE x \in S : TRUE IN f[x] + SumOver(f, S \ {x})

\* the increment the claim gives on a lap to a driver with these observed lap times
ClaimedIncrement(observed, lap, pit_laps) ==
    LET pitDelta == call.pit_delta_est * DuelScale
    IN IF lap \in pit_laps /\ lap \in DOMAIN observed THEN observed[lap] + pitDelta
       ELSE IF lap \in pit_laps THEN pitDelta
       ELSE IF lap \notin DOMAIN observed
       THEN SumOver(observed, DOMAIN observed) \div Cardinality(DOMAIN observed)
       ELSE observed[lap]

\* C14: on every lap 1..maxLap the driver's increment is the observed lap time plus
\* pitDelta on the candidate pit lap, pitDelta alone when that lap is unobserved, the
\* driver's own mean observed lap time on any other unobserved lap, and the observed
\* lap time otherwise (the rival's likewise with its pit laps); sim_driver_cum and
\* sim_rival_cum have maxLap entries, the running sums of the increments, and
\* final_gap_s is the difference of their last entries
C14_IncrementsAndRunningSums ==
    Duelled =>
        LET rival_pits == {ret.rival_pit_laps[k] : k \in 1..Len(ret.rival_pit_laps)}
            Running(cum, driver, pit_laps) ==
                LET observed == ObservedBy(driver)
                IN /\ Len(cum) = maxLap
                   /\ \A lap \in 1..maxLap :
                         cum[lap] - (IF lap = 1 THEN 0 ELSE cum[lap - 1])
                            = ClaimedIncrement(observed, lap, pit_laps)
        IN /\ Running(ret.sim_driver_cum, call.driver, {call.candidate_pit_lap})
           /\ Running(ret.sim_rival_cum, call.rival, rival_pits)
           /\ ret.final_gap_s = ret.sim_driver_cum[maxLap] - ret.sim_rival_cum[maxLap]
           /\ (ret.final_gap_s < 0) <=> (ret.sim_driver_cum[maxLap] < ret.sim_rival_cum[maxLap])

\* the driver pits on a lap without a lap time, misses another lap and has a lap time
\* on a third
C14_Witness ==
    /\ Duelled
    /\ maxLap = MaxDuelLaps
    /\ call.candidate_pit_lap \in 1..maxLap
    /\ call.candidate_pit_lap \notin DOMAIN ObservedBy(call.driver)
    /\ Cardinality(DOMAIN ObservedBy(call.driver)) = 1
    /\ ret.final_gap_s < 0

\* the rows of the rival in LapNumber order
RivalLapsInOrder ==
    LET mine == {i \in 1..Len(laps.rows) : laps.rows[i].Driver = call.rival}
        RECURSIVE Ordered(_)
        Ordered(S) == IF S = {} THEN <<>>
                      ELSE LET i == CHOOSE i \in S : \A j \in S :
                                       laps.rows[i].LapNumber <= laps.rows[j].LapNumber
                           IN <<laps.rows[i]>> \o Ordered(S \ {i})
    IN Ordered(mine)

\* the laps on which the rival shows another compound than on its preceding lap
CompoundChangeLaps ==
    IF "Compound" \notin laps.cols THEN {}
    ELSE LET mine == RivalLapsInOrder
         IN {mine[k].LapNumber : k \in {j \in 2..Len(mine) :
                                          mine[j].Compound # mine[j - 1].Compound}}

\* C15: the rival's pit laps are the laps on which its Compound differs from that of
\* its preceding lap, or the single halfway lap when there is none; for every
\* maxLap >= 1 each of them lies within 1..maxLap and adds exactly one pitDelta to
\* the rival's cumulative time, so the rival is charged at least one pit penalty
C15_RivalPitLapsWithinRace ==
    Duelled =>
        LET rival_pits == {ret.rival_pit_laps[k] : k \in 1..Len(ret.rival_pit_laps)}
            observed == ObservedBy(call.rival)
            unpenalised == [lap \in 1..maxLap |->
                              ClaimedIncrement(observed, lap, {})]
            pitDelta == call.pit_delta_est * DuelScale
            charged == {lap \in 1..maxLap :
                          ret.sim_rival_cum[lap] - (IF lap = 1 THEN 0
                                                    ELSE ret.sim_rival_cum[lap - 1])
                             # unpenalised[lap]}
        IN /\ CompoundChangeLaps # {} => rival_pits = CompoundChangeLaps
           /\ CompoundChangeLaps = {} => Len(ret.rival_pit_laps) = 1
           /\ Cardinality(rival_pits) = Len(ret.rival_pit_laps)
           /\ rival_pits \subseteq 1..maxLap
           /\ charged = rival_pits
           /\ Cardinality(charged) >= 1

\* the final gap of the same duel with another candidate pit lap
FinalGapWith(candidate_pit_lap) ==
    simulate_undercut_overtake(laps, call.driver, call.rival, candidate_pit_lap,
                               call.pit_delta_est * DuelScale).final_gap_s

\* the driver has an observed lap time on every lap of the race
FullyObserved == DOMAIN ObservedBy(call.driver) = 1..maxLap

\* C20: when the driver has an observed lap time on every lap 1..maxLap, final_gap_s
\* is the same for every candidate pit lap in 1..maxLap, and for a candidate pit lap
\* outside 1..maxLap it is smaller by exactly pitDelta, no pit delta being charged
C20_FinalGapIndependentOfPitLap ==
    Duelled =>
        LET pitDelta == call.pit_delta_est * DuelScale
            inside == call.candidate_pit_lap \in 1..maxLap
            observed == ObservedBy(call.driver)
            unpenalised == [lap \in 1..maxLap |-> ClaimedIncrement(observed, lap, {})]
        IN /\ FullyObserved =>
                 /\ \A other \in 1..maxLap :
                       FinalGapWith(other)
                          = ret.final_gap_s + (IF inside THEN 0 ELSE pitDelta)
                 /\ \A other \in CandidatePitLaps \ (1..maxLap) :
                       FinalGapWith(other)
                          = ret.final_gap_s - (IF inside THEN pitDelta ELSE 0)
           /\ ~inside => ret.sim_driver_cum[maxLap] = SumOver(unpenalised, 1..maxLap)

\* a full race of observed laps, the pit lap in its middle, the rival with a pit
\* stop of its own
C20_Witness ==
    /\ Duelled
    /\ FullyObserved
    /\ maxLap = MaxDuelLaps
    /\ call.candidate_pit_lap = 2
    /\ CompoundChangeLaps # {}
    /\ ret.sim_driver_cum[1] = ObservedSeconds(call.driver, 1) * DuelScale

----------------------------------------------------------------------------
(* undercut_simulator.py: simulate_undercut_vs_overcut                     *)
(*                                                                         *)
(* The columns "Gap_to_Leader(s)", "Delta(s)" and the key "MinGap(s)" are  *)
(* written Gap_to_Leader_s, Delta_s and MinGap_s.                          *)

\* ticks per second of the payoff model: the fade of 0.002 per lap is exact
PayoffScale == 500

\* lines 5-10: the first of the lap time columns the table has
LapTimeColumns == <<"LapTime_s", "LapTime(s)", "LapTime">>

_detect_laptime_column(df) ==
    LET found == SelectSeq(LapTimeColumns, LAMBDA col : col \in df.cols)
    IN IF found = <<>> THEN None ELSE Some(found[1])

\* the requested race length kept as it is
KeepTotalLaps(df, laps_total) == laps_total

\* lines 29-31: total_laps resolved down to the largest LapIndex of the table
ResolveTotalLaps(df, laps_total) ==
    IF "LapIndex" \in df.cols
    THEN LET max_index == CHOOSE m \in {df.rows[i].LapIndex : i \in 1..Len(df.rows)} :
                             \A i \in 1..Len(df.rows) : df.rows[i].LapIndex <= m
         IN IF laps_total > max_index THEN max_index ELSE laps_total
    ELSE laps_total

\* np.interp(x, xs, ys) at one point, xs increasing: the end values outside the
\* range of xs, the chord between the two neighbours inside it
InterpAt(x, xs, ys) ==
    LET n == Len(xs)
    IN IF x <= xs[1] THEN ys[1]
       ELSE IF x >= xs[n] THEN ys[n]
       ELSE LET k == CHOOSE k \in 1..(n - 1) : xs[k] <= x /\ x < xs[k + 1]
            IN ys[k] + ((x - xs[k]) * (ys[k + 1] - ys[k])) \div (xs[k + 1] - xs[k])

\* lines 37-48, for a compound with rows: the curve over laps 1..total_laps, in ticks
get_deg_curve(df, comp, laps_total) ==
    LET grp == SelectRows(df.rows, comp)
        x_src == [i \in 1..Len(grp) |-> grp[i].LapIndex]
        y_src == [i \in 1..Len(grp) |-> grp[i].LapTime_s * PayoffScale]
    IN IF Len(x_src) = 1 THEN [i \in 1..laps_total |-> y_src[1]]
       ELSE [i \in 1..laps_total |-> InterpAt(i, x_src, y_src)]

\* the pit loss taken on the undercut lap, or on the last lap when the undercut
\* lap lies beyond it
DeltaClamped(lap_num, undercut_lap, laps_a, laps_b, pit_loss) ==
    LET pit_lap == IF undercut_lap > Len(laps_a) THEN Len(laps_a) ELSE undercut_lap
    IN IF lap_num < pit_lap THEN laps_b[lap_num] - laps_a[lap_num]
       ELSE IF lap_num = pit_lap THEN 0 - pit_loss
       ELSE laps_b[lap_num]
               - (laps_a[1] * (PayoffScale + (lap_num - pit_lap))) \div PayoffScale

\* lines 60-73: the delta of one lap
Delta(lap_num, undercut_lap, laps_a, laps_b, pit_loss) ==
    IF lap_num < undercut_lap THEN laps_b[lap_num] - laps_a[lap_num]
    ELSE IF lap_num = undercut_lap THEN 0 - pit_loss
    ELSE LET tyre_age == lap_num - undercut_lap
             fresh_base == laps_a[1]
             fresh_lap == (fresh_base * (PayoffScale + tyre_age)) \div PayoffScale
         IN laps_b[lap_num] - fresh_lap

\* lines 54-76: the loop from lap i on, gap the list built so far
RECURSIVE GapLoop(_, _, _, _, _, _, _)
GapLoop(i, undercut_lap, laps_a, laps_b, pit_loss, gap, delta_laps) ==
    IF i > Len(laps_a) THEN [gap |-> gap, delta_laps |-> delta_laps]
    ELSE LET delta == Delta(i, undercut_lap, laps_a, laps_b, pit_loss)
             g == IF i > 1 THEN gap[i - 1] + delta ELSE delta
         IN GapLoop(i + 1, undercut_lap, laps_a, laps_b, pit_loss,
                    Append(gap, g), Append(delta_laps, delta))

\* the last row holding the smallest gap
idxmin_last(rows) ==
    CHOOSE i \in 1..Len(rows) :
        \A j \in 1..Len(rows) :
            /\ rows[i].Gap_to_Leader_s <= rows[j].Gap_to_Leader_s
            /\ rows[j].Gap_to_Leader_s = rows[i].Gap_to_Leader_s => j <= i

\* line 86, Series.idxmin(): the first row holding the smallest gap
idxmin_gap(rows) ==
    CHOOSE i \in 1..Len(rows) :
        \A j \in 1..Len(rows) :
            /\ rows[i].Gap_to_Leader_s <= rows[j].Gap_to_Leader_s
            /\ rows[j].Gap_to_Leader_s = rows[i].Gap_to_Leader_s => i <= j

\* lines 78-94, for at least one lap
PayoffOf(sim, compound_a, compound_b) ==
    LET rows == [i \in 1..Len(sim.gap) |->
                    [Lap |-> i, Gap_to_Leader_s |-> sim.gap[i], Delta_s |-> sim.delta_laps[i]]]
        best_row == rows[idxmin_gap(rows)]
    IN [raised |-> "",
        payoff_df |-> [cols |-> {"Lap", "Gap_to_Leader(s)", "Delta(s)"}, rows |-> rows],
        payoff_summary |-> [BestLap |-> best_row.Lap,
                            MinGap_s |-> best_row.Gap_to_Leader_s,
                            Compound_A |-> compound_a,
                            Compound_B |-> compound_b]]

\* returns (payoff_df, payoff_summary); raised names the exception when one escapes;
\* pit_loss in ticks
simulate_undercut_vs_overcut(df, compound_a, compound_b, undercut_lap, laps_total, pit_loss) ==
    LET Raise(e) == [raised |-> e, payoff_df |-> EmptyDataFrame, payoff_summary |-> <<>>]
    IN IF IsEmpty(df) THEN Raise("ValueError")
       ELSE IF _detect_laptime_column(df) = None THEN Raise("KeyError")
       ELSE LET resolved == ResolveTotalLaps(df, laps_total)
            IN IF resolved <= 0 THEN Raise("ValueError")
               ELSE IF SelectRows(df.rows, compound_a) = <<>> THEN Raise("ValueError")
               ELSE IF SelectRows(df.rows, compound_b) = <<>> THEN Raise("ValueError")
               ELSE LET laps_a == get_deg_curve(df, compound_a, resolved)
                        laps_b == get_deg_curve(df, compound_b, resolved)
                    IN PayoffOf(GapLoop(1, undercut_lap, laps_a, laps_b, pit_loss,
                                        <<>>, <<>>),
                                compound_a, compound_b)

----------------------------------------------------------------------------
(* SpecPayoff: one payoff simulation on a degradation table                *)

\* the degradation tables of the payoff simulation, and one that lost its lap
\* time column
PayoffTables ==
    DegradationTables({90, 96}, MaxLapIndex)
    \cup {[cols |-> {"Compound", "LapIndex"},
           rows |-> <<[Compound |-> "HARD", LapIndex |-> 1]>>]}

\* undercut laps, inside the race and on either side of it
UndercutLaps == 0..(MaxLapIndex + 1)

InitPayoff ==
    /\ laps = NoValue
    /\ stints = NoValue
    /\ degradation = NoValue
    /\ degradation_df \in PayoffTables
    /\ total_laps \in 0..(MaxLapIndex + 1)
    /\ call = NoCall
    /\ locals = NoValue
    /\ ret = NoValue

SimulateUndercutVsOvercut ==
    /\ call = NoCall
    /\ \E a, b \in 1..Len(Compounds), undercut_lap \in UndercutLaps, pit_loss \in PitLosses :
          /\ call' = [fn |-> "simulate_undercut_vs_overcut", compound_a |-> Compounds[a],
                      compound_b |-> Compounds[b], undercut_lap |-> undercut_lap,
                      pit_loss |-> pit_loss]
          /\ ret' = simulate_undercut_vs_overcut(degradation_df, Compounds[a], Compounds[b],
                        undercut_lap, total_laps, pit_loss * PayoffScale)
    /\ UNCHANGED <<laps, stints, degradation, degradation_df, total_laps, locals>>

NextPayoff == SimulateUndercutVsOvercut

SpecPayoff == InitPayoff /\ [][NextPayoff]_vars

\* a payoff frame was returned
PayoffSimulated == call.fn = "simulate_undercut_vs_overcut" /\ ret.raised = ""

\* the largest LapIndex of the degradation table
MaxIndexOfTable ==
    CHOOSE m \in 0..MaxLapIndex :
        /\ \A i \in 1..Len(degradation_df.rows) : degradation_df.rows[i].LapIndex <= m
        /\ m = 0 \/ \E i \in 1..Len(degradation_df.rows) : degradation_df.rows[i].LapIndex = m

\* N: the requested race length resolved down to the largest LapIndex
ResolvedLaps == Min(total_laps, MaxIndexOfTable)

\* the per-lap curve of a compound, in ticks: its mean lap time at the lap, its last
\* value held beyond its last LapIndex
PayoffCurve(compound, lap) ==
    PayoffScale * CurveValue(degradation_df, compound,
                             Min(lap, MaxLapIndexOf(degradation_df, compound)))

\* the frame's cumulative gap by lap
GapSeries == [i \in 1..Len(ret.payoff_df.rows) |-> ret.payoff_df.rows[i].Gap_to_Leader_s]

\* C16: the payoff frame has exactly the laps 1..N, N the smaller of the requested
\* total_laps and the largest LapIndex; the delta of lap L is B(L) - A(L) before the
\* undercut lap, -pitLoss on it and B(L) - A(1) x (1 + 0.002 x (L - undercutLap))
\* after it; the gap of lap L is the sum of the deltas of laps 1..L
C16_PayoffFrameDeltasAndGap ==
    PayoffSimulated =>
        LET rows == ret.payoff_df.rows
            A(lap) == PayoffCurve(call.compound_a, lap)
            B(lap) == PayoffCurve(call.compound_b, lap)
            U == call.undercut_lap
        IN /\ Len(rows) = ResolvedLaps
           /\ \A L \in 1..Len(rows) :
                 /\ rows[L].Lap = L
                 /\ L < U => rows[L].Delta_s = B(L) - A(L)
                 /\ L = U => rows[L].Delta_s = 0 - call.pit_loss * PayoffScale
                 /\ L > U => 1000 * rows[L].Delta_s
                                = 1000 * B(L) - A(1) * (1000 + 2 * (L - U))
                 /\ rows[L].Gap_to_Leader_s
                       = SumSeq([l \in 1..L |-> rows[l].Delta_s])

\* a race cut from four requested laps to the three of the table, the undercut on
\* lap 2 between two different compounds
C16_Witness ==
    /\ PayoffSimulated
    /\ total_laps > MaxIndexOfTable
    /\ Len(ret.payoff_df.rows) = 3
    /\ call.undercut_lap = 2
    /\ call.compound_a # call.compound_b
    /\ ret.payoff_df.rows[1].Delta_s # 0
    /\ MaxLapIndexOf(degradation_df, call.compound_b) = 1

\* C17: MinGap is the minimum of the cumulative gap over laps 1..N and BestLap is
\* the earliest lap of 1..N whose cumulative gap is that minimum
C17_BestLapIsEarliestMinimum ==
    PayoffSimulated =>
        LET N == Len(GapSeries)
            best == ret.payoff_summary.BestLap
        IN /\ N = ResolvedLaps
           /\ best \in 1..N
           /\ GapSeries[best] = ret.payoff_summary.MinGap_s
           /\ \A L \in 1..N : ret.payoff_summary.MinGap_s <= GapSeries[L]
           /\ \A L \in 1..N : GapSeries[L] = ret.payoff_summary.MinGap_s => best <= L
           /\ ret.payoff_summary.Compound_A = call.compound_a
           /\ ret.payoff_summary.Compound_B = call.compound_b

\* the minimum is reached on two laps, after a lap with a larger gap
C17_Witness ==
    /\ PayoffSimulated
    /\ ret.payoff_summary.BestLap = 2
    /\ Len(GapSeries) = 3
    /\ GapSeries[3] = GapSeries[2]
    /\ GapSeries[1] > GapSeries[2]

\* the two compounds have the same curve over the resolved race
IdenticalCurves ==
    \A L \in 1..ResolvedLaps :
        PayoffCurve(call.compound_a, L) = PayoffCurve(call.compound_b, L)

\* C18: with identical curves for A and B and an undercut lap beyond the resolved
\* race length, the call either raises a validation error or returns a gap series
\* that ends with the resolved race and never moves: no lap takes the pit-loss swing
C18_UndercutBeyondRaceLeavesGapFlat ==
    (call.fn = "simulate_undercut_vs_overcut"
        /\ "LapTime_s" \in degradation_df.cols
        /\ {call.compound_a, call.compound_b} \subseteq CompoundsOf(degradation_df)
        /\ IdenticalCurves
        /\ call.undercut_lap > ResolvedLaps) =>
        \/ ret.raised = "ValueError"
        \/ /\ ret.raised = ""
           /\ Len(GapSeries) = ResolvedLaps
           /\ \A L \in 1..Len(GapSeries) :
                 /\ ret.payoff_df.rows[L].Delta_s # 0 - call.pit_loss * PayoffScale
                 /\ GapSeries[L] = GapSeries[1]
                 /\ GapSeries[L] = 0

\* two compounds with the same three-lap curve, the undercut asked for lap 4
C18_Witness ==
    /\ PayoffSimulated
    /\ call.compound_a # call.compound_b
    /\ IdenticalCurves
    /\ ResolvedLaps = 3
    /\ call.undercut_lap = 4
    /\ PayoffCurve(call.compound_a, 3) # PayoffCurve(call.compound_a, 1)

====
